---- MODULE Spec2Model ----
(***************************************************************************)
(* pangeo_forge_recipes/transforms.py: the key-preserving decorator        *)
(* _add_keys and the two composite transforms OpenURLWithFSSpec and        *)
(* OpenWithXarray, run by a Beam-like engine that invokes the mapped       *)
(* function once per invocation, concurrently, on the elements of a        *)
(* PCollection.                                                            *)
(*                                                                         *)
(* Python values are modelled as follows.  A key and a value are records   *)
(* [kind, id].  None, True, False and every configuration value are string *)
(* tokens.  A keyword mapping (kwargs, a dataclass's fields) is a set of   *)
(* <<name, value>> pairs.  An ordered dict (__annotations__) is a sequence *)
(* of <<name, annotation>> pairs.                                          *)
(***************************************************************************)
EXTENDS Naturals, Sequences, FiniteSets

VARIABLES
    stage,      \* [kind, func]: which transform is assembled, around which function
    ctorArgs,   \* the keyword arguments given to the dataclass constructor
    config,     \* the fields of the transform object, self.cache and so on
    pcoll,      \* the input PCollection: a sequence of <<key, value>> pairs
    phase,      \* "constructed" | "expanded" | "wrapFailed"
    wrapped,    \* what _add_keys returned or raised in expand
    mapKwargs,  \* the keyword arguments bound into beam.Map by expand
    inv,        \* per invocation: [pc, elem, err]
    frames,     \* per call frame of wrapper: its locals arg, kwargs, key, item, result
    calls,      \* per invocation: the calls of func it made, in order
    emitted,    \* per invocation: the pairs it returned to the engine, in order
    cacheStore  \* identifiers the cache target holds (written by open_url)

vars == <<stage, ctorArgs, config, pcoll, phase, wrapped, mapKwargs,
          inv, frames, calls, emitted, cacheStore>>

\* Bounds of the model.
MaxElems == 2
MaxInv == 2
MaxCalls == 2

Invocations == 1..MaxInv

----------------------------------------------------------------------------
\* Keyword mappings as sets of <<name, value>> pairs.

Names(kw) == {p[1] : p \in kw}

Get(kw, n) == (CHOOSE p \in kw : p[1] = n)[2]

\* dict(defaults, **given): the given pairs, and the defaults of the other names
Override(defaults, given) ==
    given \cup {p \in defaults : p[1] \notin Names(given)}

\* every mapping over the names of `choices` (name -> set of values), total or partial
Mappings(names, choices) ==
    UNION { { {<<n, f[n]>> : n \in S} : f \in [S -> UNION {choices[n] : n \in S}] }
            : S \in SUBSET names }

WellTyped(kw, choices) == \A p \in kw : p[2] \in choices[p[1]]

----------------------------------------------------------------------------
\* Keys and values.

KeyNames == <<"k1", "k2", "k3", "k4">>

\* the Index of the element at position i of the PCollection
Key(i) == [kind |-> "index", id |-> KeyNames[i]]
Str(s) == [kind |-> "str", id |-> s]
Handle(s) == [kind |-> "handle", id |-> s]
NoValue == [kind |-> "None", id |-> "None"]

----------------------------------------------------------------------------
\* Functions that can be handed to _add_keys.  A function is described by what
\* Python knows of it: whether it has an __annotations__ attribute (a builtin
\* such as str.upper has none), its annotations in declaration order with
\* "return" last, its required positional parameters, and its keyword
\* parameters with their defaults.

Ann(t) == [wrap |-> 0, base |-> t]

\* Tuple[Index, annotation]
TupleIndex(a) == [wrap |-> a.wrap + 1, base |-> a.base]

\* open_url(identifier: str, cache=None, secrets=None, open_kwargs=None) -> handle
open_url ==
    [name |-> "open_url", hasAnnotations |-> TRUE,
     annotations |-> << <<"url", Ann("str")>>, <<"cache", Ann("Optional")>>,
                        <<"secrets", Ann("Optional")>>, <<"open_kwargs", Ann("Optional")>>,
                        <<"return", Ann("OpenFileType")>> >>,
     pos |-> <<"url">>,
     kw |-> {<<"cache", "None">>, <<"secrets", "None">>, <<"open_kwargs", "None">>}]

\* open_with_xarray(resource, file_type=unknown, load=False, copy_to_local=False,
\*                  xarray_open_kwargs={}) -> dataset
open_with_xarray ==
    [name |-> "open_with_xarray", hasAnnotations |-> TRUE,
     annotations |-> << <<"url_or_file_obj", Ann("Union")>>, <<"file_type", Ann("FileType")>>,
                        <<"load", Ann("bool")>>, <<"xarray_open_kwargs", Ann("Optional")>>,
                        <<"return", Ann("Dataset")>> >>,
     pos |-> <<"url_or_file_obj">>,
     kw |-> {<<"file_type", "unknown">>, <<"load", "False">>,
             <<"copy_to_local", "False">>, <<"xarray_open_kwargs", "{}">>}]

\* def scale(x: str, factor: str = "1") -> str
scale ==
    [name |-> "scale", hasAnnotations |-> TRUE,
     annotations |-> << <<"x", Ann("str")>>, <<"factor", Ann("str")>>,
                        <<"return", Ann("str")>> >>,
     pos |-> <<"x">>, kw |-> {<<"factor", "1">>}]

\* def fragile(x: str) -> str, raising ValueError on the value "bad"
fragile ==
    [name |-> "fragile", hasAnnotations |-> TRUE,
     annotations |-> << <<"x", Ann("str")>>, <<"return", Ann("str")>> >>,
     pos |-> <<"x">>, kw |-> {}]

\* def join(a: str, b: str) -> str: two required positional parameters
join ==
    [name |-> "join", hasAnnotations |-> TRUE,
     annotations |-> << <<"a", Ann("str")>>, <<"b", Ann("str")>>,
                        <<"return", Ann("str")>> >>,
     pos |-> <<"a", "b">>, kw |-> {}]

\* def nullary() -> str: no positional parameter
nullary ==
    [name |-> "nullary", hasAnnotations |-> TRUE,
     annotations |-> << <<"return", Ann("str")>> >>,
     pos |-> << >>, kw |-> {}]

\* def bare(x): one positional parameter, nothing annotated
bare ==
    [name |-> "bare", hasAnnotations |-> TRUE,
     annotations |-> << >>,
     pos |-> <<"x">>, kw |-> {}]

\* def noret(x: str): one positional parameter, no return annotation
noret ==
    [name |-> "noret", hasAnnotations |-> TRUE,
     annotations |-> << <<"x", Ann("str")>> >>,
     pos |-> <<"x">>, kw |-> {}]

\* str.upper: a builtin method descriptor, which has no __annotations__
str_upper ==
    [name |-> "str.upper", hasAnnotations |-> FALSE,
     annotations |-> << >>,
     pos |-> <<"self">>, kw |-> {}]

\* the functions _add_keys is applied to directly (beam.Map(_add_keys(f), **c))
UserFuncs == {scale, fragile, join, nullary, bare, noret, str_upper}

\* the function accepts the value as its one required positional argument
TakesOnePositional(func) == Len(func.pos) = 1

----------------------------------------------------------------------------
\* Ordered dicts as sequences of <<name, value>> pairs.

HasItem(d, n) == \E i \in 1..Len(d) : d[i][1] = n

GetItem(d, n) == d[CHOOSE i \in 1..Len(d) : d[i][1] = n][2]

\* d[n] = v: replaces the value in place, or appends a new item
SetItem(d, n, v) ==
    IF HasItem(d, n)
    THEN [i \in 1..Len(d) |-> IF d[i][1] = n THEN <<n, v>> ELSE d[i]]
    ELSE Append(d, <<n, v>>)

NoWrapper == [ok |-> FALSE, err |-> "None", func |-> "None", annotations |-> << >>]

Raised(e) == [ok |-> FALSE, err |-> e, func |-> "None", annotations |-> << >>]

\* variant of _add_keys that validates the arity of func before wrapping it
AddKeysChecked(func) ==
    IF Len(func.pos) # 1 THEN Raised("TypeError")
    ELSE IF ~func.hasAnnotations THEN Raised("AttributeError")
    ELSE IF Len(func.annotations) = 0 THEN Raised("StopIteration")
    ELSE IF ~HasItem(func.annotations, "return") THEN Raised("KeyError")
    ELSE [ok |-> TRUE, err |-> "None", func |-> func.name,
          annotations |-> func.annotations]

\* _add_keys(func): the wrapper it returns, or the exception it raises
AddKeys(func) ==
    IF ~func.hasAnnotations THEN Raised("AttributeError")
    ELSE LET annotations == func.annotations
         IN  IF Len(annotations) = 0 THEN Raised("StopIteration")
             ELSE LET arg_name == annotations[1][1]
                      annotation == annotations[1][2]
                      a1 == SetItem(annotations, arg_name, TupleIndex(annotation))
                  IN  IF ~HasItem(a1, "return") THEN Raised("KeyError")
                      ELSE LET return_annotation == GetItem(a1, "return")
                               a2 == SetItem(a1, "return", TupleIndex(return_annotation))
                           IN  [ok |-> TRUE, err |-> "None", func |-> func.name,
                                annotations |-> a2]

----------------------------------------------------------------------------
\* Calling a function: func(item, **kwargs).

NoResult == [fn |-> "None", arg |-> NoValue, kw |-> {}]

Returns(v) == [raised |-> FALSE, err |-> "None", value |-> v]

Raises(e) == [raised |-> TRUE, err |-> e, value |-> NoResult]

\* what the call evaluates to: the function applied to its bound arguments
Result(func, item, kw) == [fn |-> func.name, arg |-> item, kw |-> kw]

\* open_url: a missing resource fails, and the failure is the opener's own
OpenUrlBody(item, kw) ==
    IF item.id = "missing" THEN Raises("FileNotFoundError")
    ELSE Returns(Result(open_url, item, kw))

\* open_with_xarray: copy_to_local needs a file-like object, not a location string
OpenWithXarrayBody(item, kw) ==
    IF Get(kw, "copy_to_local") = "True" /\ item.kind = "str"
    THEN Raises("ValueError")
    ELSE Returns(Result(open_with_xarray, item, kw))

UserBody(func, item, kw) ==
    IF func.name = "fragile" /\ item.id = "bad" THEN Raises("ValueError")
    ELSE Returns(Result(func, item, kw))

Body(func, item, kw) ==
    CASE func.name = "open_url" -> OpenUrlBody(item, kw)
      [] func.name = "open_with_xarray" -> OpenWithXarrayBody(item, kw)
      [] OTHER -> UserBody(func, item, kw)

PosNames(func) == {func.pos[i] : i \in 1..Len(func.pos)}

\* Python's argument binding of one positional argument and the keywords kwargs:
\* the positional argument takes the first parameter, every keyword must name
\* another parameter, and every required parameter must be given.
BindsOk(func, kwargs) ==
    /\ Len(func.pos) >= 1
    /\ Names(kwargs) \subseteq (PosNames(func) \cup Names(func.kw))
    /\ func.pos[1] \notin Names(kwargs)
    /\ \A i \in 2..Len(func.pos) : func.pos[i] \in Names(kwargs)

\* func(item, **kwargs)
CallFunc(func, item, kwargs) ==
    IF ~BindsOk(func, kwargs) THEN Raises("TypeError")
    ELSE Body(func, item, Override(func.kw, kwargs))

----------------------------------------------------------------------------
\* wrapper(arg, **kwargs), line by line.

\* variant of the unpacking that takes the components in the other order
UnpackSwapped(arg) == [key |-> arg[2], item |-> arg[1]]

\* key, item = arg
Unpack(arg) == [key |-> arg[1], item |-> arg[2]]

\* variant of the call that drops the keyword arguments: func(item)
WrapperCallNoKwargs(func, item, kwargs) ==
    [call |-> [fn |-> func.name, args |-> <<item>>, kwargs |-> {}],
     outcome |-> CallFunc(func, item, {})]

\* result = func(item, **kwargs): what reaches func as its arguments, and
\* what the call does
WrapperCall(func, item, kwargs) ==
    [call |-> [fn |-> func.name, args |-> <<item>>, kwargs |-> kwargs],
     outcome |-> CallFunc(func, item, kwargs)]

\* variant with "except Exception as e: raise RuntimeError from e"
WrapperReplacesError(err) == [pc |-> "raised", err |-> "RuntimeError"]

\* variant with a retry loop around the call
WrapperRetries(err) == [pc |-> "unpacked", err |-> "None"]

\* no try/except around the call: the exception leaves the wrapper as it is
WrapperOnRaise(err) == [pc |-> "raised", err |-> err]

\* return key, result
WrapperReturn(key, result) == <<key, result>>

\* variant that keeps key, item and result in one place shared by all invocations
SharedFrame(j) == 1

\* key, item and result are locals: each invocation has a call frame of its own
Frame(j) == j

NoFrame == [arg |-> <<NoValue, NoValue>>, kwargs |-> {}, key |-> NoValue,
            item |-> NoValue, result |-> NoResult]

----------------------------------------------------------------------------
\* The transforms.

OpenURLDefaults == {<<"cache", "None">>, <<"secrets", "None">>, <<"open_kwargs", "None">>}

OpenWithXarrayDefaults ==
    {<<"file_type", "unknown">>, <<"load", "False">>,
     <<"copy_to_local", "False">>, <<"xarray_open_kwargs", "{}">>}

\* the dataclass __init__: the fields given, the defaults for the others
Construct(defaults, given) == Override(defaults, given)

\* variant of OpenURLWithFSSpec.expand that does not forward secrets
OpenURLKwargsNoSecrets(self) ==
    {<<"cache", Get(self, "cache")>>, <<"open_kwargs", Get(self, "open_kwargs")>>}

\* beam.Map(..., cache=self.cache, secrets=self.secrets, open_kwargs=self.open_kwargs)
OpenURLKwargs(self) ==
    {<<"cache", Get(self, "cache")>>, <<"secrets", Get(self, "secrets")>>,
     <<"open_kwargs", Get(self, "open_kwargs")>>}

\* variant of OpenWithXarray.expand that does not forward file_type
OpenWithXarrayKwargsNoFileType(self) ==
    {<<"load", Get(self, "load")>>, <<"copy_to_local", Get(self, "copy_to_local")>>,
     <<"xarray_open_kwargs", Get(self, "xarray_open_kwargs")>>}

\* variant of OpenWithXarray.expand that does not forward copy_to_local
OpenWithXarrayKwargsNoCopy(self) ==
    {<<"file_type", Get(self, "file_type")>>, <<"load", Get(self, "load")>>,
     <<"xarray_open_kwargs", Get(self, "xarray_open_kwargs")>>}

\* beam.Map(..., file_type=self.file_type, load=self.load,
\*          copy_to_local=self.copy_to_local, xarray_open_kwargs=self.xarray_open_kwargs)
OpenWithXarrayKwargs(self) ==
    {<<"file_type", Get(self, "file_type")>>, <<"load", Get(self, "load")>>,
     <<"copy_to_local", Get(self, "copy_to_local")>>,
     <<"xarray_open_kwargs", Get(self, "xarray_open_kwargs")>>}

\* variant of expand that binds no configuration into beam.Map
ExpandKwargsEmpty(kind, self) == {}

\* the keyword arguments expand binds into beam.Map
ExpandKwargs(kind, self) ==
    CASE kind = "OpenURLWithFSSpec" -> OpenURLKwargs(self)
      [] kind = "OpenWithXarray" -> OpenWithXarrayKwargs(self)
      [] OTHER -> self

----------------------------------------------------------------------------
\* Inputs.

\* the values a constructor argument can be given, other than its default
OpenURLChoices ==
    [cache |-> {"cache1"}, secrets |-> {"secrets1"}, open_kwargs |-> {"kw1"}]

OpenWithXarrayChoices ==
    [file_type |-> {"netcdf4"}, load |-> {"True"}, copy_to_local |-> {"True"},
     xarray_open_kwargs |-> {"{decode_times}"}]

MapChoices == [factor |-> {"2"}, b |-> {"x"}]

Given(names, choices) == {kw \in Mappings(names, choices) : WellTyped(kw, choices)}

\* a stage, the arguments its constructor is given and the values of its elements
Stages ==
    {[kind |-> "OpenURLWithFSSpec", func |-> open_url, given |-> g, values |-> vs] :
        g \in Given({"cache", "secrets", "open_kwargs"}, OpenURLChoices),
        vs \in {{Str("u1"), Str("missing")}}}
    \cup
    {[kind |-> "OpenWithXarray", func |-> open_with_xarray, given |-> g, values |-> vs] :
        g \in Given({"file_type", "load", "copy_to_local", "xarray_open_kwargs"},
                    OpenWithXarrayChoices),
        vs \in {{Str("u1"), Handle("u1")}}}
    \cup
    {[kind |-> "Map", func |-> f, given |-> g, values |-> vs] :
        f \in UserFuncs, g \in Given({"factor", "b"}, MapChoices),
        vs \in {{Str("abc"), Str("bad")}}}

Defaults(kind) ==
    CASE kind = "OpenURLWithFSSpec" -> OpenURLDefaults
      [] kind = "OpenWithXarray" -> OpenWithXarrayDefaults
      [] OTHER -> {}

\* PCollections of 1..MaxElems elements, the i-th keyed by Key(i)
PCollections(values) ==
    UNION { { [i \in 1..n |-> <<Key(i), f[i]>>] : f \in [1..n -> values] }
            : n \in 1..MaxElems }

----------------------------------------------------------------------------
\* The state machine.

Init ==
    \E s \in Stages :
        /\ stage = [kind |-> s.kind, func |-> s.func]
        /\ ctorArgs = s.given
        /\ config = Construct(Defaults(s.kind), s.given)
        /\ pcoll \in PCollections(s.values)
        /\ phase = "constructed"
        /\ wrapped = NoWrapper
        /\ mapKwargs = {}
        /\ inv = [j \in Invocations |-> [pc |-> "idle", elem |-> 0, err |-> "None"]]
        /\ frames = [j \in Invocations |-> NoFrame]
        /\ calls = [j \in Invocations |-> << >>]
        /\ emitted = [j \in Invocations |-> << >>]
        /\ cacheStore = {}

\* expand(self, pcoll): wraps the function and binds the configuration into
\* beam.Map; an exception of _add_keys ends pipeline assembly
Expand ==
    /\ phase = "constructed"
    /\ LET w == AddKeys(stage.func)
       IN  /\ wrapped' = w
           /\ phase' = IF w.ok THEN "expanded" ELSE "wrapFailed"
           /\ mapKwargs' = IF w.ok THEN ExpandKwargs(stage.kind, config) ELSE {}
    /\ UNCHANGED <<stage, ctorArgs, config, pcoll, inv, frames, calls, emitted, cacheStore>>

\* the engine calls wrapper(element, **kwargs) for an element of the PCollection
Invoke(j, e) ==
    /\ phase = "expanded"
    /\ inv[j].pc = "idle"
    /\ IF j = 1 THEN TRUE ELSE inv[j - 1].pc # "idle"
    /\ inv' = [inv EXCEPT ![j] = [pc |-> "entered", elem |-> e, err |-> "None"]]
    /\ frames' = [frames EXCEPT ![Frame(j)] =
                      [NoFrame EXCEPT !.arg = pcoll[e], !.kwargs = mapKwargs]]
    /\ UNCHANGED <<stage, ctorArgs, config, pcoll, phase, wrapped, mapKwargs,
                   calls, emitted, cacheStore>>

\* key, item = arg
UnpackStep(j) ==
    /\ inv[j].pc = "entered"
    /\ LET fr == frames[Frame(j)]
           u == Unpack(fr.arg)
       IN  frames' = [frames EXCEPT ![Frame(j)] = [fr EXCEPT !.key = u.key, !.item = u.item]]
    /\ inv' = [inv EXCEPT ![j].pc = "unpacked"]
    /\ UNCHANGED <<stage, ctorArgs, config, pcoll, phase, wrapped, mapKwargs,
                   calls, emitted, cacheStore>>

\* open_url with a cache stores the resource in it before opening it
CacheAfter(func, item, kwargs, outcome, store) ==
    IF /\ func.name = "open_url"
       /\ ~outcome.raised
       /\ Get(outcome.value.kw, "cache") # "None"
    THEN store \cup {item.id}
    ELSE store

\* result = func(item, **kwargs)
CallStep(j) ==
    /\ inv[j].pc = "unpacked"
    /\ Len(calls[j]) < MaxCalls
    /\ LET fr == frames[Frame(j)]
           made == WrapperCall(stage.func, fr.item, fr.kwargs)
           outcome == made.outcome
           after == WrapperOnRaise(outcome.err)
       IN  /\ calls' = [calls EXCEPT ![j] = Append(@, made.call)]
           /\ cacheStore' = CacheAfter(stage.func, fr.item, fr.kwargs, outcome, cacheStore)
           /\ IF outcome.raised
              THEN /\ inv' = [inv EXCEPT ![j].pc = after.pc, ![j].err = after.err]
                   /\ frames' = frames
              ELSE /\ inv' = [inv EXCEPT ![j].pc = "called"]
                   /\ frames' = [frames EXCEPT ![Frame(j)].result = outcome.value]
    /\ UNCHANGED <<stage, ctorArgs, config, pcoll, phase, wrapped, mapKwargs, emitted>>

\* return key, result
ReturnStep(j) ==
    /\ inv[j].pc = "called"
    /\ LET fr == frames[Frame(j)]
       IN  emitted' = [emitted EXCEPT ![j] = Append(@, WrapperReturn(fr.key, fr.result))]
    /\ inv' = [inv EXCEPT ![j].pc = "returned"]
    /\ UNCHANGED <<stage, ctorArgs, config, pcoll, phase, wrapped, mapKwargs,
                   frames, calls, cacheStore>>

Next ==
    \/ Expand
    \/ \E j \in Invocations, e \in 1..Len(pcoll) : Invoke(j, e)
    \/ \E j \in Invocations : UnpackStep(j)
    \/ \E j \in Invocations : CallStep(j)
    \/ \E j \in Invocations : ReturnStep(j)

Spec == Init /\ [][Next]_vars

----------------------------------------------------------------------------
\* Properties.

\* the element invocation j was given, its key and its value
Elem(j) == pcoll[inv[j].elem]
KeyOf(j) == Elem(j)[1]
ValueOf(j) == Elem(j)[2]

Started(j) == inv[j].pc # "idle"
PastCall(j) == inv[j].pc \in {"called", "returned", "raised"}
Returned(j) == inv[j].pc = "returned"
RaisedIn(j) == inv[j].pc = "raised"

\* f(v, **c) for the function and the keyword arguments of the stage
Direct(v) == CallFunc(stage.func, v, mapKwargs)

\* C1: the wrapper returned by _add_keys(f), called on (k, v) with the keyword
\* arguments c, returns exactly (k, f(v, **c)); f received v as its single
\* positional argument and c as its keyword arguments.
C1_WrapperReturnsKeyAndResult ==
    \A j \in Invocations :
        Returned(j) =>
            /\ ~Direct(ValueOf(j)).raised
            /\ emitted[j] = << <<KeyOf(j), Direct(ValueOf(j)).value>> >>
            /\ calls[j] = << [fn |-> stage.func.name, args |-> <<ValueOf(j)>>,
                              kwargs |-> mapKwargs] >>

\* a wrapped user function has returned, called with a non-empty configuration
C1_Witness ==
    \E j \in Invocations :
        /\ stage.kind = "Map"
        /\ mapKwargs = {<<"factor", "2">>}
        /\ Returned(j)
        /\ ValueOf(j) = Str("abc")

\* C2: the key is passed through untouched: the key the wrapper holds and the
\* key of the pair it returns are the key of the input pair, the key is never
\* an argument of the wrapped function, and the function gets the value alone.
C2_KeyPassedThrough ==
    \A j \in Invocations :
        /\ inv[j].pc \in {"unpacked", "called", "returned", "raised"} =>
               frames[Frame(j)].key = KeyOf(j)
        /\ \A n \in 1..Len(calls[j]) :
               /\ calls[j][n].args = <<ValueOf(j)>>
               /\ \A a \in 1..Len(calls[j][n].args) : calls[j][n].args[a] # KeyOf(j)
        /\ \A n \in 1..Len(emitted[j]) : emitted[j][n][1] = KeyOf(j)
        /\ Started(j) => frames[Frame(j)].arg = Elem(j)

\* the second element of a PCollection has been opened and returned under its key
C2_Witness ==
    \E j \in Invocations :
        /\ stage.kind = "OpenURLWithFSSpec"
        /\ Returned(j)
        /\ inv[j].elem = 2
        /\ emitted[j][1][1] = Key(2)

\* C3: when f raises on v, the wrapper called on (k, v) raises that same error
\* and returns no pair; the wrapper raises nothing that f did not raise.
C3_ErrorPropagatesUnchanged ==
    \A j \in Invocations :
        /\ (PastCall(j) /\ Direct(ValueOf(j)).raised) =>
               /\ RaisedIn(j)
               /\ inv[j].err = Direct(ValueOf(j)).err
               /\ emitted[j] = << >>
        /\ RaisedIn(j) =>
               /\ Direct(ValueOf(j)).raised
               /\ inv[j].err = Direct(ValueOf(j)).err

\* a wrapped user function has raised ValueError on an element
C3_Witness ==
    \E j \in Invocations :
        /\ stage.func.name = "fragile"
        /\ RaisedIn(j)
        /\ ValueOf(j) = Str("bad")
        /\ inv[j].err = "ValueError"

\* what makes _add_keys raise: no __annotations__, no annotation, no "return"
AnnotationDefect(func) ==
    \/ ~func.hasAnnotations
    \/ Len(func.annotations) = 0
    \/ ~HasItem(func.annotations, "return")

C5_OpenURLForwardsConfig ==
    stage.kind = "OpenURLWithFSSpec" =>
        LET c == {<<"cache", Get(config, "cache")>>,
                  <<"secrets", Get(config, "secrets")>>,
                  <<"open_kwargs", Get(config, "open_kwargs")>>}
        IN  \A j \in Invocations :
                /\ \A n \in 1..Len(calls[j]) :
                       calls[j][n] = [fn |-> "open_url", args |-> <<ValueOf(j)>>,
                                      kwargs |-> c]
                /\ Returned(j) =>
                       /\ emitted[j] = << <<KeyOf(j), Result(open_url, ValueOf(j), c)>> >>
                       /\ ctorArgs = {} =>
                              /\ emitted[j][1][2] = CallFunc(open_url, ValueOf(j), {}).value
                              /\ <<"cache", "None">> \in emitted[j][1][2].kw

\* an identifier was opened with a cache, secrets and open_kwargs configured
C5_Witness ==
    \E j \in Invocations :
        /\ stage.kind = "OpenURLWithFSSpec"
        /\ config = {<<"cache", "cache1">>, <<"secrets", "secrets1">>,
                     <<"open_kwargs", "kw1">>}
        /\ Returned(j)

\* C6: OpenWithXarray forwards file_type, load, copy_to_local and
\* xarray_open_kwargs to open_with_xarray on every element and yields
\* (key, open_with_xarray(resource, ...)); with nothing configured they are
\* unknown, False, False and the empty mapping.
C6_OpenWithXarrayForwardsConfig ==
    stage.kind = "OpenWithXarray" =>
        LET c == {<<"file_type", Get(config, "file_type")>>,
                  <<"load", Get(config, "load")>>,
                  <<"copy_to_local", Get(config, "copy_to_local")>>,
                  <<"xarray_open_kwargs", Get(config, "xarray_open_kwargs")>>}
        IN  /\ ctorArgs = {} =>
                   c = {<<"file_type", "unknown">>, <<"load", "False">>,
                        <<"copy_to_local", "False">>, <<"xarray_open_kwargs", "{}">>}
            /\ \A j \in Invocations :
                   /\ \A n \in 1..Len(calls[j]) :
                          calls[j][n] = [fn |-> "open_with_xarray",
                                         args |-> <<ValueOf(j)>>, kwargs |-> c]
                   /\ Returned(j) =>
                          emitted[j] =
                              << <<KeyOf(j), Result(open_with_xarray, ValueOf(j), c)>> >>

\* a resource was opened with a file type, eager loading and options configured
C6_Witness ==
    \E j \in Invocations :
        /\ stage.kind = "OpenWithXarray"
        /\ <<"file_type", "netcdf4">> \in config
        /\ <<"load", "True">> \in config
        /\ <<"xarray_open_kwargs", "{decode_times}">> \in config
        /\ Returned(j)

\* C7: the configuration record is read-only after assembly: whatever
\* invocations have run or failed, every field has the value it was
\* constructed with, and every invocation receives those values.
C7_ConfigReadOnly ==
    stage.kind \in {"OpenURLWithFSSpec", "OpenWithXarray"} =>
        LET built == Override(Defaults(stage.kind), ctorArgs)
        IN  /\ config = built
            /\ phase = "expanded" => \A p \in built : p \in mapKwargs
            /\ \A j \in Invocations :
                   /\ Started(j) => \A p \in built : p \in frames[Frame(j)].kwargs
                   /\ \A n \in 1..Len(calls[j]) : \A p \in built : p \in calls[j][n].kwargs

\* a second invocation ran to its end after the opener failed in the first
C7_Witness ==
    /\ stage.kind = "OpenURLWithFSSpec"
    /\ <<"cache", "cache1">> \in config
    /\ RaisedIn(1)
    /\ Returned(2)
    /\ Len(calls[2]) = 1

\* what a run of the wrapper alone on the element produces
SequentialOutput(el) == <<el[1], Direct(el[2]).value>>

\* the identifiers a cache holds after the invocations that opened one
Cached ==
    {ValueOf(j).id : j \in {i \in Invocations :
        /\ stage.kind = "OpenURLWithFSSpec"
        /\ <<"cache", "None">> \notin config
        /\ inv[i].pc \in {"called", "returned"}}}

\* C8: under every interleaving of concurrent invocations, an invocation holds
\* the key and the value of its own element only, its output is the pair a
\* sequential run produces for that element, and the cache holds what the
\* successful invocations put there.
C8_ConcurrentInvocationsIsolated ==
    /\ \A j \in Invocations :
           /\ inv[j].pc \in {"unpacked", "called"} =>
                  /\ frames[Frame(j)].key = KeyOf(j)
                  /\ frames[Frame(j)].item = ValueOf(j)
           /\ inv[j].pc = "called" => frames[Frame(j)].result = Direct(ValueOf(j)).value
           /\ Returned(j) => emitted[j] = << SequentialOutput(Elem(j)) >>
           /\ RaisedIn(j) => inv[j].err = Direct(ValueOf(j)).err
    /\ cacheStore = Cached

\* two invocations on different elements overlap: the second returned while the
\* first was between its unpacking and its return
C8_Witness ==
    /\ stage.kind = "OpenURLWithFSSpec"
    /\ <<"cache", "cache1">> \in config
    /\ inv[1].pc = "called"
    /\ Returned(2)
    /\ inv[1].elem # inv[2].elem
    /\ cacheStore = {"u1"}

C10_ExactlyOneCall ==
    \A j \in Invocations :
        /\ Len(calls[j]) <= 1
        /\ Len(emitted[j]) <= 1
        /\ inv[j].pc \in {"idle", "entered", "unpacked"} =>
               calls[j] = << >> /\ emitted[j] = << >>
        /\ PastCall(j) => Len(calls[j]) = 1
        /\ inv[j].pc = "called" => emitted[j] = << >>
        /\ Returned(j) => Len(emitted[j]) = 1
        /\ RaisedIn(j) => emitted[j] = << >>

\* the opener failed on one element and succeeded on another
C10_Witness ==
    /\ stage.kind = "OpenURLWithFSSpec"
    /\ RaisedIn(1) /\ Len(calls[1]) = 1 /\ inv[1].err = "FileNotFoundError"
    /\ Returned(2) /\ Len(calls[2]) = 1

====
